---- MODULE Spec2Model ----
(***************************************************************************)
(* A model of the consent / data-donation flow: the consent form and its   *)
(* table containers (search, delete, undo, donate), the donation page and  *)
(* confirm prompt (skip, ok, cancel), the row search function, and the     *)
(* visualization-data hook with its background worker.                     *)
(*                                                                         *)
(* JavaScript strings are sequences of one-character strings, so that      *)
(* trimming, escaping and matching can be computed.  A value of type       *)
(* "T | null" or "T | undefined" is a sequence of length at most one.      *)
(***************************************************************************)
EXTENDS Integers, Sequences, FiniteSets, TLC

VARIABLES
  sRows,           \* searchRows: the rows argument
  sSearch,         \* searchRows: the search argument
  sFilter,         \* searchRows: the dataTypeFilter argument
  sOut,            \* searchRows: the outcome of the call, none before the call
  promptKind,      \* DonationPage: the type of props.body
  hasFooter,       \* DonationPage: props.footer != null (the skip button)
  propsTables,     \* ConsentForm: props.tables
  tables,          \* ConsentForm: the tables state
  metaTables,      \* ConsentForm: the metaTables state
  search,          \* TableContainer of each table: the search state
  dataTypeFilter,  \* TableContainer of each table: the dataTypeFilter state
  searchFilterIds, \* TableContainer of each table: the searchFilterIds state
  timer,           \* TableContainer of each table: the pending debounce timers
  resolveCount,    \* the number of calls of the resolve callback
  lastPayload,     \* the payload of the latest call of resolve, with its caller
  trail,           \* the latest step of the form, for claims about sequences
  hkTable,         \* useVisualizationData: the table argument, as its version
  hkVisualization, \* useVisualizationData: the type of the visualization argument
  hkWorker,        \* useVisualizationData: the worker state is set
  hkStatus,        \* useVisualizationData: the status state
  hkData,          \* useVisualizationData: the visualizationData state
  hkShownFor,      \* the table version of the event that last set status and data
  hkReceived,      \* the latest message that worker.onmessage of the hook handled
  wkState,         \* the worker: none, loading, running, failed, terminated
  wkInbox,         \* the worker: requests posted and not yet received
  wkRunning,       \* the worker: requests whose promise is pending
  wkOutbox         \* the worker: responses posted and not yet received

searchVars == <<sRows, sSearch, sFilter, sOut>>

pageVars == <<promptKind, hasFooter, propsTables>>

containerVars == <<search, dataTypeFilter, searchFilterIds, timer>>

resolveVars == <<resolveCount, lastPayload>>

formVars == <<pageVars, tables, metaTables, containerVars, resolveVars, trail>>

vizVars == <<hkTable, hkVisualization, hkWorker, hkStatus, hkData, hkShownFor, hkReceived,
             wkState, wkInbox, wkRunning, wkOutbox>>

vars == <<searchVars, formVars, vizVars>>

----------------------------------------------------------------------------
(* Option values.                                                          *)

None == <<>>

Some(v) == <<v>>

IsSome(o) == Len(o) = 1

ValueOf(o) == o[1]

----------------------------------------------------------------------------
(* Bounds of the model.                                                    *)

\* longest search query given to searchRows
MaxQueryLen == 2

\* most rows of a row sequence given to searchRows
MaxSearchRows == 2

\* most row ids (over all batches) in the deletedRows ledger of one table
MaxLedgerIds == 2

\* most calls of the resolve callback
MaxResolves == 2

\* most changes of the table given to useVisualizationData
MaxTableChanges == 1

\* most rows of a data frame drawn as props.tables
MaxFrameRows == 2

\* most rows of a table drawn as the state of the consent form
MaxDrawnRows == 2

\* most entries of prepared chart data
MaxPoints == 1

\* most entries of the chart data of a message drawn for the hook
MaxEntries == 3

----------------------------------------------------------------------------
(* Strings.                                                                *)

\* the characters of the modelled inputs: letters in both cases, a space,
\* and three characters of the escape class of searchRows
Chars == {"a", "A", "b", " ", ".", "*", "("}

RECURSIVE StringsUpTo(_)
StringsUpTo(n) ==
  IF n = 0 THEN {<<>>}
  ELSE LET shorter == StringsUpTo(n - 1)
       IN  shorter \cup {Append(s, c) : s \in {t \in shorter : Len(t) = n - 1}, c \in Chars}

\* white space removed by String.prototype.trim
WhiteSpace == {" ", "\t", "\n", "\r"}

RECURSIVE trimStart(_)
trimStart(s) ==
  IF s # <<>> /\ Head(s) \in WhiteSpace THEN trimStart(Tail(s)) ELSE s

RECURSIVE trimEnd(_)
trimEnd(s) ==
  IF s # <<>> /\ s[Len(s)] \in WhiteSpace THEN trimEnd(SubSeq(s, 1, Len(s) - 1)) ELSE s

trim(s) == trimEnd(trimStart(s))

\* the Canonicalize of a RegExp without the i flag
CanonicalizeCaseSensitive(c) == c

\* Canonicalize of a case-insensitive RegExp: the upper-case form
Canonicalize(c) ==
  IF c = "a" THEN "A" ELSE IF c = "b" THEN "B" ELSE c

----------------------------------------------------------------------------
(* searchRows: the regular expression built from the query.                *)

\* the character class /[-/\\^$*+?.()|[\]{}]/ of the escaping replace
EscapeClass ==
  {"-", "/", "\\", "^", "$", "*", "+", "?", ".", "(", ")", "|", "[", "]", "{", "}"}

\* q.replace(/[-/\\^$*+?.()|[\]{}]/, '\\$&'): a replace with a pattern that
\* has no g flag replaces the first match only
RECURSIVE escapeQuery(_)
escapeQuery(q) ==
  IF q = <<>> THEN <<>>
  ELSE IF Head(q) \in EscapeClass THEN <<"\\", Head(q)>> \o Tail(q)
  ELSE <<Head(q)>> \o escapeQuery(Tail(q))

\* the escaping that replaces every match, as a replace with the g flag does
RECURSIVE escapeQueryAll(_)
escapeQueryAll(q) ==
  IF q = <<>> THEN <<>>
  ELSE IF Head(q) \in EscapeClass THEN <<"\\", Head(q)>> \o escapeQueryAll(Tail(q))
  ELSE <<Head(q)>> \o escapeQueryAll(Tail(q))

SyntaxError == [ok |-> FALSE, atoms |-> <<>>]

Atom(kind, ch) == [kind |-> kind, ch |-> ch, star |-> FALSE]

\* The pattern parser of new RegExp(pattern, 'i') for patterns over Chars
\* and the backslash: an escaped character is a literal, '.' is any
\* character, '*' repeats the atom before it (nothing to repeat: an error),
\* '(' opens a group that nothing closes (unterminated group: an error).
RECURSIVE parsePattern(_, _, _)
parsePattern(p, i, acc) ==
  IF i > Len(p) THEN [ok |-> TRUE, atoms |-> acc]
  ELSE IF p[i] = "\\" THEN
    IF i = Len(p) THEN SyntaxError
    ELSE parsePattern(p, i + 2, Append(acc, Atom("lit", p[i + 1])))
  ELSE IF p[i] = "(" THEN SyntaxError
  ELSE IF p[i] = "*" THEN
    IF acc = <<>> \/ acc[Len(acc)].star THEN SyntaxError
    ELSE parsePattern(p, i + 1, [acc EXCEPT ![Len(acc)].star = TRUE])
  ELSE IF p[i] = "." THEN parsePattern(p, i + 1, Append(acc, Atom("any", ".")))
  ELSE parsePattern(p, i + 1, Append(acc, Atom("lit", p[i])))

NewRegExp(pattern) == parsePattern(pattern, 1, <<>>)

LineTerminators == {"\n", "\r"}

CharMatches(atom, c) ==
  IF atom.kind = "any" THEN c \notin LineTerminators
  ELSE Canonicalize(atom.ch) = Canonicalize(c)

\* whether atoms k.. match s from position i on
RECURSIVE MatchAt(_, _, _, _)
MatchAt(atoms, k, s, i) ==
  IF k > Len(atoms) THEN TRUE
  ELSE IF atoms[k].star THEN
    \E n \in 0..(Len(s) - i + 1) :
      /\ \A j \in i..(i + n - 1) : CharMatches(atoms[k], s[j])
      /\ MatchAt(atoms, k + 1, s, i + n)
  ELSE /\ i <= Len(s)
       /\ CharMatches(atoms[k], s[i])
       /\ MatchAt(atoms, k + 1, s, i + 1)

\* regex.test(cell) of a RegExp without the g flag: a match at any position
RegExpTest(regex, cell) ==
  \E i \in 1..(Len(cell) + 1) : MatchAt(regex.atoms, 1, cell, i)

----------------------------------------------------------------------------
(* searchRows.                                                             *)

Returned(v) == [throws |-> FALSE, value |-> v]

Thrown == [throws |-> TRUE, value |-> None]

\* row.cells.findIndex((cell, index) => index === 0): 0, or -1 without cells
dataTypeIndex(row) == IF Len(row.cells) > 0 THEN 0 ELSE -1

rowMatchesSearch(row, query, regex) ==
  \/ trim(query) = <<>>
  \/ \E c \in 1..Len(row.cells) : RegExpTest(regex, row.cells[c])

\* a type comparison that ignores the case of letters
rowMatchesDataTypeIgnoringCase(row, typeFilter) ==
  \/ typeFilter = None
  \/ /\ dataTypeIndex(row) # -1
     /\ LET cell == row.cells[dataTypeIndex(row) + 1]
            type == ValueOf(typeFilter)
        IN  /\ Len(cell) = Len(type)
            /\ \A j \in 1..Len(cell) : Canonicalize(cell[j]) = Canonicalize(type[j])

rowMatchesDataType(row, typeFilter) ==
  \/ typeFilter = None
  \/ /\ dataTypeIndex(row) # -1
     /\ \/ typeFilter = None
        \/ row.cells[dataTypeIndex(row) + 1] = ValueOf(typeFilter)

searchRows(rowSeq, query, typeFilter) ==
  IF trim(query) = <<>> /\ typeFilter = None THEN Returned(None)
  ELSE LET regex == NewRegExp(escapeQuery(trim(query)))
       IN  IF ~regex.ok THEN Thrown
           ELSE Returned(Some({rowSeq[k].id : k \in
                  {k \in 1..Len(rowSeq) :
                     /\ rowMatchesSearch(rowSeq[k], query, regex)
                     /\ rowMatchesDataType(rowSeq[k], typeFilter)}}))

----------------------------------------------------------------------------
(* ConsentForm: parsing the tables of the prompt.                          *)
(* A data frame (column -> row index -> value) is a sequence of columns,   *)
(* in key order, each with its name and its values by row index.           *)

\* the values of a parsed data frame: JSON strings, numbers and null
JsonString(s) == [t |-> "string", s |-> s]

JsonNumber(digits) == [t |-> "number", s |-> digits]

JsonNull == [t |-> "null", s |-> <<>>]

\* String(value): a string is itself, a number its decimal digits, null "null"
String(value) ==
  IF value.t = "null" THEN <<"n", "u", "l", "l">> ELSE value.s

columnNames(dataFrame) == [c \in 1..Len(dataFrame) |-> dataFrame[c].name]

columnCount(dataFrame) == Len(columnNames(dataFrame))

\* String(dataFrame[column][`${row}`]); a missing entry reads as undefined
rowCell(dataFrame, c, row) ==
  IF row + 1 <= Len(dataFrame[c].values) THEN String(dataFrame[c].values[row + 1])
  ELSE <<"u", "n", "d", "e", "f", "i", "n", "e", "d">>

rowCount(dataFrame) ==
  IF columnCount(dataFrame) = 0 THEN 0
  ELSE Len(dataFrame[1].values) - 1

\* a rows() that puts the row id in front of the cells
rowsWithIdCell(data) ==
  [r \in 1..(rowCount(data) + 1) |->
    [id |-> ToString(r - 1),
     cells |-> <<ToString(r - 1)>> \o
                 [c \in 1..columnCount(data) |-> rowCell(data, c, r - 1)]]]

\* for (let row = 0; row <= n; row++)
rows(data) ==
  [r \in 1..(rowCount(data) + 1) |->
    [id |-> ToString(r - 1),
     cells |-> [c \in 1..columnCount(data) |-> rowCell(data, c, r - 1)]]]

\* rows as parsing numbers them: the id of the row at index k is `${k}`
RowsOf(cellLists) ==
  [k \in 1..Len(cellLists) |-> [id |-> ToString(k - 1), cells |-> cellLists[k]]]

parseTable(tableData) ==
  [id |-> tableData.id,
   head |-> columnNames(tableData.data_frame),
   body |-> rows(tableData.data_frame),
   deletedRowCount |-> 0,
   originalBody |-> rows(tableData.data_frame),
   deletedRows |-> <<>>]

parseTables(tablesData) == [k \in 1..Len(tablesData) |-> parseTable(tablesData[k])]

\* the props of the modelled consent form: two tables and one meta table
PropsTables ==
  << [id |-> "t0",
      data_frame |-> << [name |-> "Type",
                         values |-> <<JsonString(<<"a">>), JsonString(<<"b">>)>>],
                        [name |-> "text",
                         values |-> <<JsonString(<<"A", ".">>), JsonString(<<"b", "(">>)>>] >>],
     [id |-> "t1",
      data_frame |-> << [name |-> "Type", values |-> <<JsonString(<<"a">>)>>] >>] >>

PropsMetaTables ==
  << [id |-> "m0",
      data_frame |-> << [name |-> "key", values |-> <<JsonString(<<"b">>)>>] >>] >>

----------------------------------------------------------------------------
(* TableContainer: deleting rows, the searched table.                      *)

\* the Set deleteIds built from every batch of deletedRows
deleteIds(deletedRows) ==
  UNION {{deletedRows[b][k] : k \in 1..Len(deletedRows[b])} : b \in 1..Len(deletedRows)}

\* a deleteTableRows that counts the ids of the batches instead of the rows
deleteTableRowsCountingIds(table, deletedRows) ==
  LET kept == SelectSeq(table.originalBody, LAMBDA row : row.id \notin deleteIds(deletedRows))
      n == Len(deletedRows)
      RECURSIVE total(_)
      total(b) == IF b = 0 THEN 0 ELSE Len(deletedRows[b]) + total(b - 1)
  IN  [table EXCEPT !.body = kept, !.deletedRowCount = total(n), !.deletedRows = deletedRows]

\* a deleteTableRows that filters the current body by the newest batch only
deleteTableRowsLastBatch(table, deletedRows) ==
  LET newest == IF deletedRows = <<>> THEN {}
                ELSE {deletedRows[Len(deletedRows)][k] : k \in 1..Len(deletedRows[Len(deletedRows)])}
      kept == SelectSeq(table.body, LAMBDA row : row.id \notin newest)
  IN  [table EXCEPT !.body = kept,
                    !.deletedRowCount = Len(table.originalBody) - Len(kept),
                    !.deletedRows = deletedRows]

\* a deleteTableRows whose filter keeps the rows it should drop
deleteTableRowsInverted(table, deletedRows) ==
  LET kept == SelectSeq(table.originalBody, LAMBDA row : row.id \in deleteIds(deletedRows))
  IN  [table EXCEPT !.body = kept,
                    !.deletedRowCount = Len(table.originalBody) - Len(kept),
                    !.deletedRows = deletedRows]

deleteTableRows(table, deletedRows) ==
  LET kept == SelectSeq(table.originalBody, LAMBDA row : row.id \notin deleteIds(deletedRows))
  IN  [table EXCEPT !.body = kept,
                    !.deletedRowCount = Len(table.originalBody) - Len(kept),
                    !.deletedRows = deletedRows]

\* useMemo searchedTable: the table, or the table with the body rows whose
\* id is in searchFilterIds
searchedTable(table, filterIds) ==
  IF filterIds = None THEN table
  ELSE [table EXCEPT !.body = SelectSeq(table.body, LAMBDA row : row.id \in ValueOf(filterIds))]

\* an updateTable that replaces the first entry whatever its id is
updateTableFirstEntry(tbls, tableId, table) ==
  IF tbls = <<>> THEN tbls ELSE [tbls EXCEPT ![1] = table]

\* ConsentForm.updateTable: replaces the first table with that id, if any
updateTable(tbls, tableId, table) ==
  LET hits == {k \in 1..Len(tbls) : tbls[k].id = tableId}
  IN  IF hits = {} THEN tbls
      ELSE LET index == CHOOSE k \in hits : \A h \in hits : k <= h
           IN  [tbls EXCEPT ![index] = table]

\* table.deletedRows.slice(0, -1) of a handleUndo that drops the oldest batch
undoneLedgerOldest(deletedRows) ==
  IF deletedRows = <<>> THEN <<>> ELSE Tail(deletedRows)

\* table.deletedRows.slice(0, -1)
undoneLedger(deletedRows) ==
  IF deletedRows = <<>> THEN <<>> ELSE SubSeq(deletedRows, 1, Len(deletedRows) - 1)

RECURSIVE LedgerSize(_)
LedgerSize(deletedRows) ==
  IF deletedRows = <<>> THEN 0
  ELSE Len(Head(deletedRows)) + LedgerSize(Tail(deletedRows))

RECURSIVE IdSeqs(_, _)
IdSeqs(ids, n) ==
  IF n = 0 THEN {<<>>}
  ELSE LET shorter == IdSeqs(ids, n - 1)
       IN  shorter \cup {Append(s, x) : s \in {t \in shorter : Len(t) = n - 1}, x \in ids}

\* the row id lists a caller may pass to handleDelete: not empty, over the
\* ids of the table, with repeats and with ids deleted before
ExplicitBatches(table) ==
  IdSeqs({table.originalBody[k].id : k \in 1..Len(table.originalBody)},
         MaxLedgerIds - LedgerSize(table.deletedRows)) \ {<<>>}

----------------------------------------------------------------------------
(* ConsentForm: serializing the consent data.                              *)

\* _.fromPairs(_.zip(keys, values)): an object, the last pair of a key wins
fromPairsZip(keys, values) ==
  [k \in {keys[j] : j \in 1..Len(keys)} |->
    values[CHOOSE j \in 1..Len(keys) :
             keys[j] = k /\ \A h \in 1..Len(keys) : keys[h] = k => h <= j]]

\* an assertion that lets a row with more cells than the head pass
rowAssertHoldsAtLeast(row, head) == Len(row.cells) >= Len(head)

\* the condition of the assertion of serializeRow
rowAssertHolds(row, head) == Len(row.cells) = Len(head)

\* the assertion helper: it throws when the condition is false
assertThrows(condition) == ~condition

serializeRow(row, head) == fromPairsZip(head, row.cells)

\* a serializeTable that serializes originalBody instead of body
serializeTableOriginal(table) ==
  [key |-> table.id,
   data |-> [r \in 1..Len(table.originalBody) |-> serializeRow(table.originalBody[r], table.head)]]

\* { [id]: data }
serializeTable(table) ==
  [key |-> table.id,
   data |-> [r \in 1..Len(table.body) |-> serializeRow(table.body[r], table.head)]]

serializeTables(tbls) == [k \in 1..Len(tbls) |-> serializeTable(tbls[k])]

\* a serializeDeletedMetaData without the filter on deletedRowCount
serializeDeletedMetaDataUnfiltered(tbls) ==
  [key |-> "user_omissions",
   data |-> [k \in 1..Len(tbls) |->
              [deleted |-> tbls[k].deletedRowCount, table |-> tbls[k].id]]]

\* `User deleted ${deletedRowCount} rows from table: ${id}`, as its two
\* interpolated fields, for the tables with deletedRowCount > 0
serializeDeletedMetaData(tbls) ==
  LET kept == SelectSeq(tbls, LAMBDA t : t.deletedRowCount > 0)
  IN  [key |-> "user_omissions",
       data |-> [k \in 1..Len(kept) |->
                  [deleted |-> kept[k].deletedRowCount, table |-> kept[k].id]]]

serializeMetaData(tbls, metas) ==
  Append(serializeTables(metas), serializeDeletedMetaData(tbls))

\* JSON.stringify(array), as the array it encodes
serializeConsentData(tbls, metas) ==
  serializeTables(tbls) \o serializeMetaData(tbls, metas)

\* whether an assert of serializeRow fails while serializing
serializeThrows(tbls, metas) ==
  \E k \in 1..Len(tbls \o metas) :
    \E r \in 1..Len((tbls \o metas)[k].body) :
      assertThrows(rowAssertHolds((tbls \o metas)[k].body[r], (tbls \o metas)[k].head))

----------------------------------------------------------------------------
(* The payloads of resolve.                                                *)

PayloadJSON(by, value) == [by |-> by, type |-> "PayloadJSON", value |-> value]

PayloadFalse(by) == [by |-> by, type |-> "PayloadFalse", value |-> FALSE]

PayloadTrue(by) == [by |-> by, type |-> "PayloadTrue", value |-> TRUE]

\* a handler that donates the tables where it should decline
DonatingPayload(by) == PayloadJSON(by, serializeConsentData(tables, metaTables))

NoTrail == [op |-> "none", table |-> 0, before |-> None, view |-> None, old |-> None]

\* resolve?.(payload), capped at MaxResolves calls
resolve(payload) ==
  /\ resolveCount < MaxResolves
  /\ resolveCount' = resolveCount + 1
  /\ lastPayload' = Some(payload)

----------------------------------------------------------------------------
(* useVisualizationData and the visualization data worker.                 *)
(* The table given to the hook is a new object after every change, here a  *)
(* version number; prepared data records the version it was computed from. *)

\* the visualization types of the modelled descriptors; "pie" is a type
\* the worker does not support, "undefined" is a missing visualization
VisualizationTypes == {"line", "bar", "area", "wordcloud", "pie", "undefined"}

XString(s) == [t |-> "string", s |-> s]

XNull == [t |-> "null", s |-> ""]

\* the values of __x that the hook filters out
InvalidKeys ==
  {XNull, [t |-> "undefined", s |-> ""]} \cup
  {XString(s) : s \in {"NaN-QNaN", "NaN-Invalid Date", "Invalid Date", "NaN",
                       "NaN-Invalid Date-NaN", "Invalid Date-NaN-NaN", "Invalid Date-NaN"}}

\* the __x values of the prepared chart entries of the model
XKeys == {XString("2024-01"), XString("2024-02"), XString("Invalid Date"), XNull}

RECURSIVE KeySeqs(_)
KeySeqs(n) ==
  IF n = 0 THEN {<<>>}
  ELSE LET shorter == KeySeqs(n - 1)
       IN  shorter \cup {Append(s, x) : s \in {t \in shorter : Len(t) = n - 1}, x \in XKeys}

Resolved(data) == [settled |-> "resolved", data |-> Some(data), error |-> ""]

Rejected(error) == [settled |-> "rejected", data |-> None, error |-> error]

\* prepareChartData: chart data with one entry per key, or a thrown error
prepareChartData(request) ==
  {Resolved([kind |-> "chart", forTable |-> request.table, data |-> keys]) :
     keys \in KeySeqs(MaxPoints)}
  \cup {Rejected("RangeError: Invalid time value"), Rejected("Error")}

\* prepareTextData: word cloud data, or a thrown error
prepareTextData(request) ==
  {Resolved([kind |-> "text", forTable |-> request.table, data |-> <<>>]),
   Rejected("Error")}

\* a createVisualizationData that answers a type it does not know with
\* empty text data instead of throwing
createVisualizationDataLenient(request) ==
  IF request.visualization = "undefined"
  THEN {Rejected("Error: Table and visualization are required")}
  ELSE IF request.visualization \in {"line", "bar", "area"} THEN prepareChartData(request)
  ELSE IF request.visualization \in {"wordcloud"} THEN prepareTextData(request)
  ELSE {Resolved([kind |-> "text", forTable |-> request.table, data |-> <<>>])}

\* createVisualizationData: the ways the promise can settle
createVisualizationData(request) ==
  IF request.visualization = "undefined"
  THEN {Rejected("Error: Table and visualization are required")}
  ELSE IF request.visualization \in {"line", "bar", "area"} THEN prepareChartData(request)
  ELSE IF request.visualization \in {"wordcloud"} THEN prepareTextData(request)
  ELSE {Rejected("Error: Visualization type not supported")}

\* the message self.onmessage posts when the promise has settled; the field
\* request is not part of the posted message, it records which request the
\* response answers, as cause records the error the .catch was given
workerResponse(request, outcome) ==
  IF outcome.settled = "resolved"
  THEN [status |-> "success", visualizationData |-> outcome.data, request |-> request,
        cause |-> ""]
  ELSE [status |-> "error", visualizationData |-> None, request |-> request,
        cause |-> outcome.error]

\* a filter that drops the entries without a key and keeps the markers
cleanedDataDroppingNullOnly(data) ==
  SelectSeq(data, LAMBDA key : key.t = "string")

\* the filter of the hook on the entries of chart data
cleanedData(data) == SelectSeq(data, LAMBDA key : key \notin InvalidKeys)

VizIdle ==
  /\ hkTable = 0
  /\ hkVisualization = "none"
  /\ hkWorker = FALSE
  /\ hkStatus = "loading"
  /\ hkData = None
  /\ hkShownFor = 0
  /\ hkReceived = None
  /\ wkState = "none"
  /\ wkInbox = <<>>
  /\ wkRunning = {}
  /\ wkOutbox = <<>>

\* the hook after its first render: no worker yet, status loading
InitHook ==
  /\ hkTable = 1
  /\ hkVisualization \in VisualizationTypes
  /\ hkWorker = FALSE
  /\ hkStatus = "loading"
  /\ hkData = None
  /\ hkShownFor = 0
  /\ hkReceived = None
  /\ wkState = "none"
  /\ wkInbox = <<>>
  /\ wkRunning = {}
  /\ wkOutbox = <<>>

\* the request effect: setStatus('loading'), the handlers, worker.postMessage
postRequest(table) ==
  /\ hkStatus' = "loading"
  /\ wkInbox' = Append(wkInbox, [table |-> table, visualization |-> hkVisualization])

\* the worker effect runs after the first render: new Worker, setWorker;
\* the request effect then runs with the worker
WorkerCreated ==
  /\ ~hkWorker
  /\ wkState = "none"
  /\ hkWorker' = TRUE
  /\ wkState' = "loading"
  /\ postRequest(hkTable)
  /\ UNCHANGED <<hkTable, hkVisualization, hkData, hkShownFor, hkReceived, wkRunning, wkOutbox>>

\* the table prop changes (a delete, an undo, a search result): the
\* request effect runs again
TableChanged ==
  /\ wkState # "terminated"
  /\ hkTable <= MaxTableChanges
  /\ hkTable' = hkTable + 1
  /\ IF hkWorker THEN postRequest(hkTable + 1)
     ELSE UNCHANGED <<hkStatus, wkInbox>>
  /\ UNCHANGED <<hkVisualization, hkWorker, hkData, hkShownFor, hkReceived, wkState, wkRunning, wkOutbox>>

\* the worker script has been evaluated: self.onmessage is installed
WorkerScriptLoaded ==
  /\ wkState = "loading"
  /\ wkState' = "running"
  /\ UNCHANGED <<hkTable, hkVisualization, hkWorker, hkStatus, hkData, hkShownFor, hkReceived,
                 wkInbox, wkRunning, wkOutbox>>

\* the worker script fails: worker.onerror of the hook
WorkerErrorEvent ==
  /\ wkState = "loading"
  /\ wkState' = "failed"
  /\ hkStatus' = "error"
  /\ hkData' = None
  /\ hkShownFor' = hkTable
  /\ UNCHANGED <<hkTable, hkVisualization, hkWorker, hkReceived, wkInbox, wkRunning, wkOutbox>>

\* self.onmessage: createVisualizationData starts for the next message
WorkerOnMessage ==
  /\ wkState = "running"
  /\ wkInbox # <<>>
  /\ wkRunning' = wkRunning \cup {Head(wkInbox)}
  /\ wkInbox' = Tail(wkInbox)
  /\ UNCHANGED <<hkTable, hkVisualization, hkWorker, hkStatus, hkData, hkShownFor, hkReceived,
                 wkState, wkOutbox>>

\* a self.onmessage that posts the error message after the success message
WorkerSettlesPostingBoth(request, outcome) ==
  /\ wkState = "running"
  /\ request \in wkRunning
  /\ outcome \in createVisualizationData(request)
  /\ wkRunning' = wkRunning \ {request}
  /\ wkOutbox' = IF outcome.settled = "resolved"
                 THEN wkOutbox \o <<workerResponse(request, outcome),
                                    workerResponse(request, Rejected("Error"))>>
                 ELSE Append(wkOutbox, workerResponse(request, outcome))
  /\ UNCHANGED <<hkTable, hkVisualization, hkWorker, hkStatus, hkData, hkShownFor, hkReceived,
                 wkState, wkInbox>>

\* the promise of one request settles: .then or .catch posts the response
WorkerSettles(request, outcome) ==
  /\ wkState = "running"
  /\ request \in wkRunning
  /\ outcome \in createVisualizationData(request)
  /\ wkRunning' = wkRunning \ {request}
  /\ wkOutbox' = Append(wkOutbox, workerResponse(request, outcome))
  /\ UNCHANGED <<hkTable, hkVisualization, hkWorker, hkStatus, hkData, hkShownFor, hkReceived,
                 wkState, wkInbox>>

\* a worker.onmessage whose error branch sets the status and leaves the data
HookOnMessageKeepingData ==
  /\ wkState = "running"
  /\ wkOutbox # <<>>
  /\ LET e == Head(wkOutbox)
     IN  /\ hkShownFor' = e.request.table
         /\ hkReceived' = Some(e)
         /\ IF e.status = "error" \/ e.visualizationData = None
            THEN hkStatus' = "error" /\ hkData' = hkData
            ELSE LET vd == ValueOf(e.visualizationData)
                 IN  IF vd.kind = "chart"
                     THEN IF cleanedData(vd.data) = <<>>
                          THEN hkStatus' = "success" /\ hkData' = None
                          ELSE /\ hkData' = Some([vd EXCEPT !.data = cleanedData(vd.data)])
                               /\ hkStatus' = "success"
                     ELSE hkData' = Some(vd) /\ hkStatus' = "success"
  /\ wkOutbox' = Tail(wkOutbox)
  /\ UNCHANGED <<hkTable, hkVisualization, hkWorker, wkState, wkInbox, wkRunning>>

\* worker.onmessage of the hook, for the next response of the worker
HookOnMessage ==
  /\ wkState = "running"
  /\ wkOutbox # <<>>
  /\ LET e == Head(wkOutbox)
     IN  /\ hkShownFor' = e.request.table
         /\ hkReceived' = Some(e)
         /\ IF e.status = "error" \/ e.visualizationData = None
            THEN hkStatus' = "error" /\ hkData' = None
            ELSE LET vd == ValueOf(e.visualizationData)
                 IN  IF vd.kind = "chart"
                     THEN IF cleanedData(vd.data) = <<>>
                          THEN hkStatus' = "success" /\ hkData' = None
                          ELSE /\ hkData' = Some([vd EXCEPT !.data = cleanedData(vd.data)])
                               /\ hkStatus' = "success"
                     ELSE hkData' = Some(vd) /\ hkStatus' = "success"
  /\ wkOutbox' = Tail(wkOutbox)
  /\ UNCHANGED <<hkTable, hkVisualization, hkWorker, wkState, wkInbox, wkRunning>>

\* the cleanup of the worker effect when the hook unmounts: worker.terminate()
Unmount ==
  /\ hkWorker
  /\ wkState \in {"loading", "running", "failed"}
  /\ wkState' = "terminated"
  /\ wkInbox' = <<>>
  /\ wkRunning' = {}
  /\ wkOutbox' = <<>>
  /\ UNCHANGED <<hkTable, hkVisualization, hkWorker, hkStatus, hkData, hkShownFor, hkReceived>>

NextViz ==
  \/ WorkerCreated /\ UNCHANGED <<searchVars, formVars>>
  \/ TableChanged /\ UNCHANGED <<searchVars, formVars>>
  \/ WorkerScriptLoaded /\ UNCHANGED <<searchVars, formVars>>
  \/ WorkerErrorEvent /\ UNCHANGED <<searchVars, formVars>>
  \/ WorkerOnMessage /\ UNCHANGED <<searchVars, formVars>>
  \/ \E r \in wkRunning : \E o \in createVisualizationData(r) :
       WorkerSettles(r, o) /\ UNCHANGED <<searchVars, formVars>>
  \/ HookOnMessage /\ UNCHANGED <<searchVars, formVars>>
  \/ Unmount /\ UNCHANGED <<searchVars, formVars>>

----------------------------------------------------------------------------
(* The form: initial state and steps.  Under Spec the page shows one of    *)
(* three prompts; in the consent form the participant deletes rows of the  *)
(* two tables, undoes deletions and answers, and leaves the search bars    *)
(* and type menus alone (SpecContainer has those).                         *)

\* the search texts typed into the search bar of the single container
ContainerQueries == {<<>>, <<"a">>, <<"b">>, <<" ">>}

\* the data types chosen in the type menu ('' is no filter)
DataTypes == {<<>>, <<"a">>, <<"b">>}

PromptKinds == {"ConsentForm", "Confirm", "Questionnaire"}

Containers == DOMAIN tables

FormIdle ==
  /\ promptKind = "none"
  /\ hasFooter = FALSE
  /\ propsTables = <<>>
  /\ tables = <<>>
  /\ metaTables = <<>>
  /\ search = <<>>
  /\ dataTypeFilter = <<>>
  /\ searchFilterIds = <<>>
  /\ timer = <<>>
  /\ resolveCount = 0
  /\ lastPayload = None
  /\ trail = NoTrail

\* what the callback of a debounce timer has closed over
Closure(q, typeFilter) == [search |-> q, dataTypeFilter |-> typeFilter]

\* the timer of the first run of the debounce effect
firstTimer == {Closure(<<>>, None)}

\* a debounce effect without the cleanup that clears the pending timer
restartTimerWithoutCleanup(pending, q, typeFilter) ==
  pending \cup {Closure(q, typeFilter)}

\* the debounce effect runs again: its cleanup clears the pending timer,
\* then setTimeout starts one for the new search and dataTypeFilter
restartTimer(pending, q, typeFilter) == {Closure(q, typeFilter)}

\* the page after its first render: a consent form has parsed its tables
\* and each table container has started its first debounce timer
InitForm ==
  /\ promptKind \in PromptKinds
  /\ hasFooter \in BOOLEAN
  /\ propsTables = IF promptKind = "ConsentForm" THEN PropsTables ELSE <<>>
  /\ tables = parseTables(propsTables)
  /\ metaTables = IF promptKind = "ConsentForm" THEN parseTables(PropsMetaTables) ELSE <<>>
  /\ search = [i \in DOMAIN tables |-> <<>>]
  /\ dataTypeFilter = [i \in DOMAIN tables |-> None]
  /\ searchFilterIds = [i \in DOMAIN tables |-> None]
  /\ timer = [i \in DOMAIN tables |-> firstTimer]
  /\ resolveCount = 0
  /\ lastPayload = None
  /\ trail = NoTrail

\* a debounce timer of container i expires: its callback calls searchRows
\* with the search and dataTypeFilter of the render that started it
SearchTimerFires(i) ==
  /\ \E t \in timer[i] :
       /\ timer' = [timer EXCEPT ![i] = timer[i] \ {t}]
       /\ LET ids == searchRows(tables[i].originalBody, t.search, t.dataTypeFilter)
          IN  searchFilterIds' =
                IF ids.throws THEN searchFilterIds
                ELSE [searchFilterIds EXCEPT ![i] = ids.value]
  /\ trail' = NoTrail
  /\ UNCHANGED <<pageVars, tables, metaTables, search, dataTypeFilter, resolveVars>>

\* SearchBar onSearch = setSearch; the bar is rendered while the body has rows
SetSearch(i, q) ==
  /\ Len(tables[i].body) > 0
  /\ q # search[i]
  /\ search' = [search EXCEPT ![i] = q]
  /\ timer' = [timer EXCEPT ![i] = restartTimer(timer[i], q, dataTypeFilter[i])]
  /\ trail' = NoTrail
  /\ UNCHANGED <<pageVars, tables, metaTables, dataTypeFilter, searchFilterIds, resolveVars>>

handleDataTypeFilter(i, dataType) ==
  LET next == IF dataType = <<>> THEN None ELSE Some(dataType)
  IN  /\ next # dataTypeFilter[i]
      /\ dataTypeFilter' = [dataTypeFilter EXCEPT ![i] = next]
      /\ timer' = [timer EXCEPT ![i] = restartTimer(timer[i], search[i], next)]
      /\ trail' = NoTrail
      /\ UNCHANGED <<pageVars, tables, metaTables, search, searchFilterIds, resolveVars>>

\* table.deletedRows.push(rowIds): the batch is added to the array of the
\* table that handleDelete was given
appendBatchPushing(deletedRows, rowIds) ==
  [made |-> Append(deletedRows, rowIds), left |-> Append(deletedRows, rowIds)]

\* [...table.deletedRows, rowIds]: the array it makes, and the array of the
\* table as the expression leaves it
appendBatch(deletedRows, rowIds) ==
  [made |-> Append(deletedRows, rowIds), left |-> deletedRows]

\* the search state of container i and the number of rows it shows
viewOf(i, given) ==
  [search |-> search[i], dataTypeFilter |-> dataTypeFilter[i],
   searchFilterIds |-> searchFilterIds[i], given |-> given,
   shown |-> Len(searchedTable(tables[i], searchFilterIds[i]).body)]

\* a handleDelete that compares the batch with the rows of the table
\* instead of the rows of searchedTable
deleteBatchComparingBody(i, rowIds, given) ==
  LET reset == Len(rowIds) = Len(tables[i].body)
  IN  /\ Len(rowIds) > 0
      /\ search' = IF reset THEN [search EXCEPT ![i] = <<>>] ELSE search
      /\ dataTypeFilter' = IF reset THEN [dataTypeFilter EXCEPT ![i] = None] ELSE dataTypeFilter
      /\ searchFilterIds' = IF reset THEN [searchFilterIds EXCEPT ![i] = None] ELSE searchFilterIds
      /\ timer' = IF reset /\ (search[i] # <<>> \/ dataTypeFilter[i] # None)
                  THEN [timer EXCEPT ![i] = restartTimer(timer[i], <<>>, None)] ELSE timer
      /\ tables' = updateTable(tables, tables[i].id,
                     deleteTableRows(tables[i], appendBatch(tables[i].deletedRows, rowIds).made))
      /\ trail' = [op |-> "delete", table |-> i, before |-> Some(tables[i]),
                   view |-> Some(viewOf(i, given)),
                   old |-> Some([tables[i] EXCEPT !.deletedRows =
                                   appendBatch(tables[i].deletedRows, rowIds).left])]
      /\ UNCHANGED <<pageVars, metaTables, resolveVars>>

\* handleDelete from `if (rowIds.length > 0)` on, for the row ids it has,
\* given by the caller or taken from searchedTable
deleteBatch(i, rowIds, given) ==
  LET shown == searchedTable(tables[i], searchFilterIds[i])
      reset == Len(rowIds) = Len(shown.body)
  IN  /\ Len(rowIds) > 0
      /\ search' = IF reset THEN [search EXCEPT ![i] = <<>>] ELSE search
      /\ dataTypeFilter' = IF reset THEN [dataTypeFilter EXCEPT ![i] = None] ELSE dataTypeFilter
      /\ searchFilterIds' = IF reset THEN [searchFilterIds EXCEPT ![i] = None] ELSE searchFilterIds
      /\ timer' = IF reset /\ (search[i] # <<>> \/ dataTypeFilter[i] # None)
                  THEN [timer EXCEPT ![i] = restartTimer(timer[i], <<>>, None)] ELSE timer
      /\ tables' = updateTable(tables, tables[i].id,
                     deleteTableRows(tables[i], appendBatch(tables[i].deletedRows, rowIds).made))
      /\ trail' = [op |-> "delete", table |-> i, before |-> Some(tables[i]),
                   view |-> Some(viewOf(i, given)),
                   old |-> Some([tables[i] EXCEPT !.deletedRows =
                                   appendBatch(tables[i].deletedRows, rowIds).left])]
      /\ UNCHANGED <<pageVars, metaTables, resolveVars>>

\* handleDelete(rowIds) with the row ids given by the caller
handleDelete(i, rowIds) == deleteBatch(i, rowIds, TRUE)

\* a handleDelete() without row ids that takes the ids of all the rows of
\* the table
handleDeleteAllOfBody(i) ==
  LET shown == tables[i]
  IN  /\ LedgerSize(tables[i].deletedRows) + Len(shown.body) <= MaxLedgerIds
      /\ deleteBatch(i, [k \in 1..Len(shown.body) |-> shown.body[k].id], FALSE)

\* handleDelete() without row ids: the ids of the rows of searchedTable
handleDeleteAll(i) ==
  LET shown == searchedTable(tables[i], searchFilterIds[i])
  IN  /\ LedgerSize(tables[i].deletedRows) + Len(shown.body) <= MaxLedgerIds
      /\ deleteBatch(i, [k \in 1..Len(shown.body) |-> shown.body[k].id], FALSE)

handleUndo(i) ==
  /\ tables' = updateTable(tables, tables[i].id,
                 deleteTableRows(tables[i], undoneLedger(tables[i].deletedRows)))
  /\ trail' = IF trail.op = "delete" /\ trail.table = i
              THEN [trail EXCEPT !.op = "delete_undo"]
              ELSE IF tables[i].deletedRows = <<>>
              THEN [op |-> "undo_empty", table |-> i, before |-> Some(tables[i]),
                    view |-> None, old |-> None]
              ELSE NoTrail
  /\ UNCHANGED <<pageVars, metaTables, containerVars, resolveVars>>

\* a handleDonate that serializes the rows the containers show
handleDonateShownRows ==
  LET shownTables == [i \in DOMAIN tables |-> searchedTable(tables[i], searchFilterIds[i])]
  IN  /\ promptKind = "ConsentForm"
      /\ resolve(PayloadJSON("ConsentForm.handleDonate",
                             serializeConsentData(shownTables, metaTables)))
      /\ trail' = [op |-> "donate", table |-> 0, before |-> None, view |-> None,
                   old |-> None]
      /\ UNCHANGED <<pageVars, tables, metaTables, containerVars>>

\* ConsentForm.handleDonate: a failed assert of serializeRow ends the
\* handler before resolve is called
handleDonate ==
  /\ promptKind = "ConsentForm"
  /\ IF serializeThrows(tables, metaTables)
     THEN /\ trail' = [op |-> "donate_throws", table |-> 0, before |-> None, view |-> None,
                        old |-> None]
          /\ UNCHANGED resolveVars
     ELSE /\ resolve(PayloadJSON("ConsentForm.handleDonate",
                                 serializeConsentData(tables, metaTables)))
          /\ trail' = [op |-> "donate", table |-> 0, before |-> None, view |-> None,
                        old |-> None]
  /\ UNCHANGED <<pageVars, tables, metaTables, containerVars>>

\* ConsentForm.handleCancel
handleCancel ==
  /\ promptKind = "ConsentForm"
  /\ resolve(PayloadFalse("ConsentForm.handleCancel"))
  /\ trail' = NoTrail
  /\ UNCHANGED <<pageVars, tables, metaTables, containerVars>>

\* a handleSkip that hands the consent data to resolve
handleSkipDonating ==
  /\ hasFooter
  /\ resolve(DonatingPayload("DonationPage.handleSkip"))
  /\ trail' = NoTrail
  /\ UNCHANGED <<pageVars, tables, metaTables, containerVars>>

\* DonationPage.handleSkip, the forward button of the footer
handleSkip ==
  /\ hasFooter
  /\ resolve(PayloadFalse("DonationPage.handleSkip"))
  /\ trail' = NoTrail
  /\ UNCHANGED <<pageVars, tables, metaTables, containerVars>>

\* Confirm.handleOk
handleOk ==
  /\ promptKind = "Confirm"
  /\ resolve(PayloadTrue("Confirm.handleOk"))
  /\ trail' = NoTrail
  /\ UNCHANGED <<pageVars, tables, metaTables, containerVars>>

\* Confirm.handleCancel
handleConfirmCancel ==
  /\ promptKind = "Confirm"
  /\ resolve(PayloadFalse("Confirm.handleCancel"))
  /\ trail' = NoTrail
  /\ UNCHANGED <<pageVars, tables, metaTables, containerVars>>

\* Questionnaire.handleDonate: the value is the constant "ASD"
handleQuestionnaireDonate ==
  /\ promptKind = "Questionnaire"
  /\ resolve(PayloadJSON("Questionnaire.handleDonate", <<"A", "S", "D">>))
  /\ trail' = NoTrail
  /\ UNCHANGED <<pageVars, tables, metaTables, containerVars>>

\* Questionnaire.handleCancel
handleQuestionnaireCancel ==
  /\ promptKind = "Questionnaire"
  /\ resolve(PayloadFalse("Questionnaire.handleCancel"))
  /\ trail' = NoTrail
  /\ UNCHANGED <<pageVars, tables, metaTables, containerVars>>

SearchIdle ==
  /\ sRows = <<>>
  /\ sSearch = <<>>
  /\ sFilter = None
  /\ sOut = None

Init == InitForm /\ SearchIdle /\ VizIdle

Next ==
  \/ \E i \in Containers : SearchTimerFires(i) /\ UNCHANGED <<searchVars, vizVars>>
  \/ \E i \in Containers : \E b \in ExplicitBatches(tables[i]) : handleDelete(i, b) /\ UNCHANGED <<searchVars, vizVars>>
  \/ \E i \in Containers : handleDeleteAll(i) /\ UNCHANGED <<searchVars, vizVars>>
  \/ \E i \in Containers : handleUndo(i) /\ UNCHANGED <<searchVars, vizVars>>
  \/ handleDonate /\ UNCHANGED <<searchVars, vizVars>>
  \/ handleCancel /\ UNCHANGED <<searchVars, vizVars>>
  \/ handleSkip /\ UNCHANGED <<searchVars, vizVars>>
  \/ handleOk /\ UNCHANGED <<searchVars, vizVars>>
  \/ handleConfirmCancel /\ UNCHANGED <<searchVars, vizVars>>
  \/ handleQuestionnaireDonate /\ UNCHANGED <<searchVars, vizVars>>
  \/ handleQuestionnaireCancel /\ UNCHANGED <<searchVars, vizVars>>

Spec == Init /\ [][Next]_vars

\* the consent form of two tables with the delete and undo of its containers
InitTwoTables == Init /\ promptKind = "ConsentForm"

NextTwoTables ==
  \/ \E i \in Containers : SearchTimerFires(i) /\ UNCHANGED <<searchVars, vizVars>>
  \/ \E i \in Containers : \E b \in ExplicitBatches(tables[i]) : handleDelete(i, b) /\ UNCHANGED <<searchVars, vizVars>>
  \/ \E i \in Containers : handleDeleteAll(i) /\ UNCHANGED <<searchVars, vizVars>>
  \/ \E i \in Containers : handleUndo(i) /\ UNCHANGED <<searchVars, vizVars>>

SpecTwoTables == InitTwoTables /\ [][NextTwoTables]_vars

----------------------------------------------------------------------------
(* One table container on its own: a consent form with the first table     *)
(* of the props, its search bar, type menu, delete and undo.               *)

InitContainer ==
  /\ promptKind = "ConsentForm"
  /\ hasFooter = FALSE
  /\ propsTables = <<PropsTables[1]>>
  /\ tables = parseTables(propsTables)
  /\ metaTables = <<>>
  /\ search = [i \in DOMAIN tables |-> <<>>]
  /\ dataTypeFilter = [i \in DOMAIN tables |-> None]
  /\ searchFilterIds = [i \in DOMAIN tables |-> None]
  /\ timer = [i \in DOMAIN tables |-> firstTimer]
  /\ resolveCount = 0
  /\ lastPayload = None
  /\ trail = NoTrail
  /\ SearchIdle
  /\ VizIdle

NextContainer ==
  \/ \E i \in Containers : SearchTimerFires(i) /\ UNCHANGED <<searchVars, vizVars>>
  \/ \E i \in Containers : \E q \in ContainerQueries : SetSearch(i, q) /\ UNCHANGED <<searchVars, vizVars>>
  \/ \E i \in Containers : \E t \in DataTypes : handleDataTypeFilter(i, t) /\ UNCHANGED <<searchVars, vizVars>>
  \/ \E i \in Containers : \E b \in ExplicitBatches(tables[i]) : handleDelete(i, b) /\ UNCHANGED <<searchVars, vizVars>>
  \/ \E i \in Containers : handleDeleteAll(i) /\ UNCHANGED <<searchVars, vizVars>>
  \/ \E i \in Containers : handleUndo(i) /\ UNCHANGED <<searchVars, vizVars>>

SpecContainer == InitContainer /\ [][NextContainer]_vars

\* the table container with its search, and the donate and cancel buttons
\* of the consent form around it
NextContainerDonate ==
  \/ NextContainer
  \/ handleDonate /\ UNCHANGED <<searchVars, vizVars>>
  \/ handleCancel /\ UNCHANGED <<searchVars, vizVars>>

SpecContainerDonate == InitContainer /\ [][NextContainerDonate]_vars

----------------------------------------------------------------------------
(* One useVisualizationData hook with its worker on its own.               *)

InitViz == InitHook /\ FormIdle /\ SearchIdle

SpecViz == InitViz /\ [][NextViz]_vars

\* a hook whose visualization is a line chart, a word cloud, a type the
\* worker does not support, or undefined (bar and area charts take the
\* branch of createVisualizationData that the line chart takes)
InitVizFair == InitViz /\ hkVisualization \in {"line", "wordcloud", "pie", "undefined"}

\* that hook and its worker when the preparations settle: while the worker
\* has a pending promise of createVisualizationData, one of the pending
\* promises is resolved or rejected in the end, unless the worker is
\* terminated before
SpecVizFair ==
  /\ InitVizFair
  /\ [][NextViz]_vars
  /\ WF_vars(\E r \in wkRunning : \E o \in createVisualizationData(r) :
               WorkerSettles(r, o) /\ UNCHANGED <<searchVars, formVars>>)

----------------------------------------------------------------------------
(* Donating on its own: the tables and meta tables of the consent form are  *)
(* drawn from the tables of the type, rows with another number of cells     *)
(* than the head among them (parseTable builds no such row; serializeRow    *)
(* asserts that it is given none).                                          *)

DrawnCells == {<<>>, <<"a">>, <<"a", "b">>}

DrawnHeads == {<<"k">>, <<"k", "v">>}

RECURSIVE DrawnCellSeqs(_)
DrawnCellSeqs(n) ==
  IF n = 0 THEN {<<>>}
  ELSE LET shorter == DrawnCellSeqs(n - 1)
       IN  shorter \cup {Append(s, c) : s \in {t \in shorter : Len(t) = n - 1}, c \in DrawnCells}

DrawnTables(id, n) ==
  {[id |-> id, head |-> head, body |-> RowsOf(cellLists), deletedRowCount |-> 0,
    originalBody |-> RowsOf(cellLists), deletedRows |-> <<>>] :
     head \in DrawnHeads, cellLists \in DrawnCellSeqs(n)}

InitDonate ==
  /\ promptKind = "ConsentForm"
  /\ hasFooter = FALSE
  /\ propsTables = <<>>
  /\ \E t \in DrawnTables("t0", MaxDrawnRows) : tables = <<t>>
  /\ \E m \in DrawnTables("m0", MaxDrawnRows - 1) : metaTables = <<m>>
  /\ search = [i \in DOMAIN tables |-> <<>>]
  /\ dataTypeFilter = [i \in DOMAIN tables |-> None]
  /\ searchFilterIds = [i \in DOMAIN tables |-> None]
  /\ timer = [i \in DOMAIN tables |-> firstTimer]
  /\ resolveCount = 0
  /\ lastPayload = None
  /\ trail = NoTrail
  /\ SearchIdle
  /\ VizIdle

NextDonate ==
  \/ handleDonate /\ UNCHANGED <<searchVars, vizVars>>
  \/ handleCancel /\ UNCHANGED <<searchVars, vizVars>>

SpecDonate == InitDonate /\ [][NextDonate]_vars

----------------------------------------------------------------------------
(* Parsing and donating without a deletion: props.tables is one table      *)
(* whose data frame is drawn from the frames of up to two columns and      *)
(* MaxFrameRows rows, every column with a value for every row index.       *)

FrameValues == {JsonString(<<"a">>), JsonNumber(<<"5">>), JsonNull}

RECURSIVE ValueSeqs(_)
ValueSeqs(n) ==
  IF n = 0 THEN {<<>>}
  ELSE {Append(s, v) : s \in ValueSeqs(n - 1), v \in FrameValues}

FrameColumnNames == {<<>>, <<"Type">>, <<"Type", "text">>}

DataFrames ==
  UNION {{[c \in 1..Len(names) |-> [name |-> names[c], values |-> columns[c]]] :
            columns \in [1..Len(names) -> ValueSeqs(n)]} :
          names \in FrameColumnNames, n \in 0..MaxFrameRows}

InitRoundTrip ==
  /\ promptKind = "ConsentForm"
  /\ hasFooter = FALSE
  /\ \E f \in DataFrames : propsTables = <<[id |-> "t0", data_frame |-> f]>>
  /\ tables = parseTables(propsTables)
  /\ metaTables = <<>>
  /\ search = [i \in DOMAIN tables |-> <<>>]
  /\ dataTypeFilter = [i \in DOMAIN tables |-> None]
  /\ searchFilterIds = [i \in DOMAIN tables |-> None]
  /\ timer = [i \in DOMAIN tables |-> firstTimer]
  /\ resolveCount = 0
  /\ lastPayload = None
  /\ trail = NoTrail
  /\ SearchIdle
  /\ VizIdle

NextRoundTrip ==
  \/ handleDonate /\ UNCHANGED <<searchVars, vizVars>>
  \/ handleCancel /\ UNCHANGED <<searchVars, vizVars>>

SpecRoundTrip == InitRoundTrip /\ [][NextRoundTrip]_vars

\* the data frames whose values are "a" or null
ParsedFrames ==
  {f \in DataFrames :
     \A c \in 1..Len(f) : \A r \in 1..Len(f[c].values) :
       f[c].values[r] \in {JsonString(<<"a">>), JsonNull}}

InitParsedTable ==
  /\ InitRoundTrip
  /\ propsTables[1].data_frame \in ParsedFrames

\* one table parsed from any of these data frames, with delete, undo and donate
NextParsedTable ==
  \/ \E i \in Containers : \E b \in ExplicitBatches(tables[i]) : handleDelete(i, b) /\ UNCHANGED <<searchVars, vizVars>>
  \/ \E i \in Containers : handleDeleteAll(i) /\ UNCHANGED <<searchVars, vizVars>>
  \/ \E i \in Containers : handleUndo(i) /\ UNCHANGED <<searchVars, vizVars>>
  \/ handleDonate /\ UNCHANGED <<searchVars, vizVars>>

SpecParsedTable == InitParsedTable /\ [][NextParsedTable]_vars

----------------------------------------------------------------------------
(* The message handler of the hook on its own: the hook has posted its     *)
(* request, the worker has answered, and the answer is drawn from the      *)
(* messages the worker can post, with chart data of up to MaxEntries       *)
(* entries.                                                                *)

DrawnOutcomes(request) ==
  createVisualizationData(request) \cup
    (IF request.visualization \in {"line", "bar", "area"}
     THEN {Resolved([kind |-> "chart", forTable |-> request.table, data |-> keys]) :
             keys \in KeySeqs(MaxEntries)}
     ELSE {})

InitHookMessage ==
  /\ hkTable = 1
  /\ hkVisualization \in VisualizationTypes
  /\ hkWorker = TRUE
  /\ hkStatus = "loading"
  /\ hkData = None
  /\ hkShownFor = 0
  /\ hkReceived = None
  /\ wkState = "running"
  /\ wkInbox = <<>>
  /\ wkRunning = {}
  /\ \E o \in DrawnOutcomes([table |-> 1, visualization |-> hkVisualization]) :
       wkOutbox = <<workerResponse([table |-> 1, visualization |-> hkVisualization], o)>>
  /\ FormIdle
  /\ SearchIdle

NextHookMessage ==
  \/ HookOnMessage /\ UNCHANGED <<searchVars, formVars>>
  \/ Unmount /\ UNCHANGED <<searchVars, formVars>>

SpecHookMessage == InitHookMessage /\ [][NextHookMessage]_vars

----------------------------------------------------------------------------
(* The search function on its own: the inputs are drawn in the initial     *)
(* state and one step calls the function.                                  *)

\* the cell lists rows are drawn from: a type cell and a text cell, a
\* single cell, and a row without cells
CellLists ==
  { << <<"a">>, <<"b", ".">> >>,
    << <<"b">>, <<"A", "(">> >>,
    << <<".", "a">> >>,
    << <<"A">> >>,
    << >> }

RECURSIVE CellListSeqs(_)
CellListSeqs(n) ==
  IF n = 0 THEN {<<>>}
  ELSE LET shorter == CellListSeqs(n - 1)
       IN  shorter \cup {Append(s, c) : s \in {t \in shorter : Len(t) = n - 1}, c \in CellLists}

SearchRowSets == {RowsOf(s) : s \in CellListSeqs(MaxSearchRows)}

SearchQueries == StringsUpTo(MaxQueryLen)

SearchFilters == {None, Some(<<"a">>), Some(<<"b">>)}

InitSearch ==
  /\ sRows \in SearchRowSets
  /\ sSearch \in SearchQueries
  /\ sFilter \in SearchFilters
  /\ sOut = None
  /\ FormIdle
  /\ VizIdle

CallSearchRows ==
  /\ sOut = None
  /\ sOut' = Some(searchRows(sRows, sSearch, sFilter))
  /\ UNCHANGED <<sRows, sSearch, sFilter>>
  /\ UNCHANGED <<formVars, vizVars>>

NextSearch == CallSearchRows

SpecSearch == InitSearch /\ [][NextSearch]_vars

----------------------------------------------------------------------------
(* Claims about the consent form, checked under Spec.                      *)

\* whether some batch of the ledger names the id
InSomeBatch(deletedRows, id) ==
  \E b \in 1..Len(deletedRows) : \E k \in 1..Len(deletedRows[b]) : deletedRows[b][k] = id

\* the rows of originalBody that no batch of the ledger names, in order
RemainingRows(table) ==
  SelectSeq(table.originalBody, LAMBDA row : ~InSomeBatch(table.deletedRows, row.id))

\* the object {column: value, ...} of a row
RowObject(table, row) ==
  [n \in {table.head[j] : j \in 1..Len(table.head)} |->
    row.cells[CHOOSE j \in 1..Len(table.head) : table.head[j] = n]]

\* C1: when donate has just fired, the payload entry of each table lists
\* exactly the rows of originalBody that no batch of the current
\* deletedRows names (the current body), in original order.
C1_DonatedRowsAreCurrentBody ==
  trail.op = "donate" =>
    /\ IsSome(lastPayload)
    /\ ValueOf(lastPayload).type = "PayloadJSON"
    /\ \A i \in DOMAIN tables :
         LET entry == ValueOf(lastPayload).value[i]
             left == RemainingRows(tables[i])
         IN  /\ entry.key = tables[i].id
             /\ Len(entry.data) = Len(tables[i].body)
             /\ entry.data = [r \in 1..Len(left) |-> RowObject(tables[i], left[r])]

\* a donation made after the first table lost one of its rows and the
\* second table all of its rows
C1_Witness ==
  /\ trail.op = "donate"
  /\ Len(tables) = 2
  /\ Len(tables[1].body) = 1
  /\ tables[1].deletedRows # <<>>
  /\ Len(tables[2].body) = 0

\* C2: the cancel action of the consent form and the skip action of the
\* page call resolve with PayloadFalse and the value false, in every state
\* of the tables; a PayloadJSON comes from a donate action only.
C2_CancelAndSkipSendFalse ==
  IsSome(lastPayload) =>
    LET p == ValueOf(lastPayload)
    IN  /\ p.by \in {"ConsentForm.handleCancel", "DonationPage.handleSkip"} =>
             (p.type = "PayloadFalse" /\ p.value = FALSE)
        /\ p.type = "PayloadJSON" =>
             p.by \in {"ConsentForm.handleDonate", "Questionnaire.handleDonate"}

\* skip on a consent form whose first table has rows left and rows deleted
C2_Witness ==
  /\ IsSome(lastPayload)
  /\ ValueOf(lastPayload).by = "DonationPage.handleSkip"
  /\ promptKind = "ConsentForm"
  /\ Len(tables[1].body) > 0
  /\ tables[1].deletedRowCount > 0

\* C6: for one rendered prompt the resolve callback is called at most once:
\* after a resolving action no further action calls it again.
C6_ResolveCalledOnce == resolveCount <= 1

----------------------------------------------------------------------------
(* Claims about deleting and undoing, checked under SpecContainer.         *)

\* C3: after every delete or undo, body is originalBody without the rows
\* whose id is in some batch of deletedRows, in the order of originalBody.
C3_BodyIsOriginalMinusDeleted ==
  \A i \in DOMAIN tables : tables[i].body = RemainingRows(tables[i])

\* two batches that name the same id, and one row left
C3_Witness ==
  \E i \in DOMAIN tables :
    /\ Len(tables[i].deletedRows) = 2
    /\ InSomeBatch(<<tables[i].deletedRows[1]>>, tables[i].deletedRows[2][1])
    /\ Len(tables[i].body) = 1

\* C4: after every delete or undo, deletedRowCount is the number of rows of
\* originalBody minus the number of rows of body.
C4_DeletedRowCountIsDifference ==
  \A i \in DOMAIN tables :
    tables[i].deletedRowCount = Len(tables[i].originalBody) - Len(tables[i].body)

\* a ledger that names more ids than rows are gone
C4_Witness ==
  \E i \in DOMAIN tables :
    /\ LedgerSize(tables[i].deletedRows) = 2
    /\ tables[i].deletedRowCount = 1

\* C5: a delete of a non-empty batch followed at once by undo restores the
\* table of before the delete: the body rows in their order, the
\* deletedRows ledger and deletedRowCount.
C5_UndoRestoresTableBeforeDelete ==
  trail.op = "delete_undo" => tables[trail.table] = ValueOf(trail.before)

\* delete then undo on a table that had a batch deleted before
C5_Witness ==
  /\ trail.op = "delete_undo"
  /\ Len(tables[trail.table].deletedRows) >= 1
  /\ tables[trail.table].deletedRowCount >= 1

----------------------------------------------------------------------------
(* Claims about useVisualizationData, checked under SpecViz.               *)

\* C7: a response of a superseded request never becomes the exposed data
\* or status: the status and data set by a worker event are those of the
\* request for the current table.
C7_StaleResponseDiscarded ==
  /\ hkStatus \in {"success", "error"} => hkShownFor = hkTable
  /\ IsSome(hkData) => ValueOf(hkData).forTable = hkTable

\* C8: at most one preparation is active for the hook at any time: a new
\* request replaces the superseded one instead of queueing behind it.
C8_AtMostOneActiveComputation ==
  Len(wkInbox) + Cardinality(wkRunning) <= 1

----------------------------------------------------------------------------
(* Claims about searchRows, checked under SpecSearch.                      *)

\* whether cell contains q as a literal substring, ignoring letter case
ContainsIgnoringCase(cell, q) ==
  \E i \in 1..(Len(cell) - Len(q) + 1) :
    \A j \in 1..Len(q) : Canonicalize(cell[i + j - 1]) = Canonicalize(q[j])

\* the ids the search contract asks for: the query as a literal substring
\* of some cell (or an empty query), and the first cell equal to the type
\* filter (or no type filter)
LiteralMatchIds(rowSeq, query, typeFilter) ==
  {rowSeq[k].id : k \in
    {k \in 1..Len(rowSeq) :
       /\ \/ trim(query) = <<>>
          \/ \E c \in 1..Len(rowSeq[k].cells) :
               ContainsIgnoringCase(rowSeq[k].cells[c], trim(query))
       /\ \/ typeFilter = None
          \/ /\ Len(rowSeq[k].cells) > 0
             /\ rowSeq[k].cells[1] = ValueOf(typeFilter)}}

\* the number of characters of the query that belong to the escape class
RECURSIVE SpecialCount(_)
SpecialCount(q) ==
  IF q = <<>> THEN 0
  ELSE (IF Head(q) \in EscapeClass THEN 1 ELSE 0) + SpecialCount(Tail(q))

\* C9: when the trimmed query is non-empty or the type filter is non-null,
\* searchRows returns exactly the ids of the rows that contain the query as
\* a case-insensitive literal substring of a cell (or the query is empty)
\* and whose first cell equals the type filter (or the filter is null).
C9_SearchReturnsLiteralMatches ==
  (IsSome(sOut) /\ (trim(sSearch) # <<>> \/ sFilter # None)) =>
    ValueOf(sOut) = Returned(Some(LiteralMatchIds(sRows, sSearch, sFilter)))

\* C10: every query is one literal pattern: the search never fails, and
\* without a type filter a non-empty query selects exactly the rows with a
\* cell that contains the query itself, whatever characters it holds.
C10_QueryIsOneLiteralPattern ==
  IsSome(sOut) =>
    /\ ~ValueOf(sOut).throws
    /\ (sFilter = None /\ trim(sSearch) # <<>>) =>
         /\ IsSome(ValueOf(sOut).value)
         /\ \A k \in 1..Len(sRows) :
              sRows[k].id \in ValueOf(ValueOf(sOut).value) <=>
                \E c \in 1..Len(sRows[k].cells) :
                  ContainsIgnoringCase(sRows[k].cells[c], trim(sSearch))

\* the table a container shows for rows and the ids of a search
ShownRows(rowSeq, ids) ==
  searchedTable([id |-> "t", head |-> <<>>, body |-> rowSeq, deletedRowCount |-> 0,
                 originalBody |-> rowSeq, deletedRows |-> <<>>], ids).body

\* C11: searchRows returns the sentinel undefined exactly when the trimmed
\* query is empty and the type filter is null; in every other case it
\* returns a set of ids; with an empty set the shown table has no rows,
\* with the sentinel it has all the rows.
C11_SentinelOnlyWithoutQueryAndFilter ==
  IsSome(sOut) =>
    LET out == ValueOf(sOut)
    IN  /\ ~out.throws
        /\ out.value = None <=> (trim(sSearch) = <<>> /\ sFilter = None)
        /\ out.value = Some({}) => ShownRows(sRows, out.value) = <<>>
        /\ out.value = None => ShownRows(sRows, out.value) = sRows

ToUpperCase(c) == IF c = "a" THEN "A" ELSE IF c = "b" THEN "B" ELSE c

ToLowerCase(c) == IF c = "A" THEN "a" ELSE IF c = "B" THEN "b" ELSE c

SwapCase(c) == IF ToUpperCase(c) # c THEN ToUpperCase(c) ELSE ToLowerCase(c)

CaseChanges == {"upper", "lower", "swap"}

ChangeCase(how, s) ==
  [j \in 1..Len(s) |->
    IF how = "upper" THEN ToUpperCase(s[j])
    ELSE IF how = "lower" THEN ToLowerCase(s[j])
    ELSE SwapCase(s[j])]

\* the rows with the case of the cells changed, from cell number `from` on
ChangeCaseOfCells(how, rowSeq, from) ==
  [k \in 1..Len(rowSeq) |->
    [rowSeq[k] EXCEPT !.cells =
      [c \in 1..Len(rowSeq[k].cells) |->
        IF c >= from THEN ChangeCase(how, rowSeq[k].cells[c]) ELSE rowSeq[k].cells[c]]]]

C13_TypeFilterIsExactOnFirstCell ==
  (IsSome(sOut) /\ trim(sSearch) = <<>> /\ sFilter # None) =>
    ValueOf(sOut) =
      Returned(Some({sRows[k].id : k \in
        {k \in 1..Len(sRows) :
           /\ Len(sRows[k].cells) > 0
           /\ sRows[k].cells[1] = ValueOf(sFilter)}}))

\* the filter "a" has kept the row with first cell "a" and dropped the row
\* with first cell "A"
C13_Witness ==
  /\ sOut = Some(Returned(Some({"0"})))
  /\ sSearch = <<" ">>
  /\ sFilter = Some(<<"a">>)
  /\ sRows = RowsOf(<< << <<"a">>, <<"b", ".">> >>, << <<"A">> >> >>)

\* the newest batch of the deletedRows ledger of container i
NewestBatch(i) == tables[i].deletedRows[Len(tables[i].deletedRows)]

\* C14: after a delete whose batch has as many ids as rows were shown
\* before it, the query is empty, the type filter is null and the matching
\* ids are undefined; after a delete of fewer ids than rows were shown the
\* query, the type filter and the matching ids are what they were.
C14_DeleteOfAllShownResetsSearch ==
  trail.op = "delete" =>
    LET i == trail.table
        before == ValueOf(trail.view)
    IN  /\ Len(NewestBatch(i)) = before.shown =>
             /\ search[i] = <<>>
             /\ dataTypeFilter[i] = None
             /\ searchFilterIds[i] = None
        /\ Len(NewestBatch(i)) < before.shown =>
             /\ search[i] = before.search
             /\ dataTypeFilter[i] = before.dataTypeFilter
             /\ searchFilterIds[i] = before.searchFilterIds

\* a search showed one of the two rows, that row was deleted and the
\* search is reset
C14_Witness ==
  /\ trail.op = "delete"
  /\ ValueOf(trail.view).search # <<>>
  /\ ValueOf(trail.view).searchFilterIds # None
  /\ ValueOf(trail.view).shown = 1
  /\ Len(ValueOf(trail.before).body) = 2
  /\ Len(NewestBatch(trail.table)) = 1
  /\ search[trail.table] = <<>>
  /\ searchFilterIds[trail.table] = None

InvalidTimeValue == "RangeError: Invalid time value"

\* C15: when the hook has handled the answer to a preparation that failed
\* with 'Invalid time value', the status is not error and there is no
\* data; when it has handled the answer to any other failure, the status is
\* error.
C15_InvalidTimeValueIsNotAnError ==
  (IsSome(hkReceived) /\ ValueOf(hkReceived).status = "error" /\ hkStatus # "loading") =>
    IF ValueOf(hkReceived).cause = InvalidTimeValue
    THEN hkStatus # "error" /\ hkData = None
    ELSE hkStatus = "error"

ChartTypes == {"line", "bar", "area"}

TextTypes == {"wordcloud"}

\* C16: a request of type line, bar or area is answered with chart data
\* or a failure, a request of type wordcloud with text data or a failure,
\* and a request of any other type, or without a visualization, only with
\* a failure: status error and no data, in the message of the worker and,
\* once the hook has handled it, in the state of the hook.
C16_DispatchByVisualizationType ==
  /\ \A k \in 1..Len(wkOutbox) :
       LET e == wkOutbox[k]
       IN  /\ e.request.visualization \notin (ChartTypes \cup TextTypes) =>
                e.status = "error" /\ e.visualizationData = None
           /\ (e.status = "success" /\ e.request.visualization \in ChartTypes) =>
                ValueOf(e.visualizationData).kind = "chart"
           /\ (e.status = "success" /\ e.request.visualization \in TextTypes) =>
                ValueOf(e.visualizationData).kind = "text"
  /\ (IsSome(hkReceived) /\ hkVisualization \notin (ChartTypes \cup TextTypes)) =>
       /\ hkStatus \in {"error", "loading"}
       /\ hkData = None
       /\ ValueOf(hkReceived).status = "error"

\* the hook has handled the failure of a request of the type "pie"
C16_Witness ==
  /\ hkVisualization = "pie"
  /\ IsSome(hkReceived)
  /\ ValueOf(hkReceived).cause = "Error: Visualization type not supported"
  /\ hkStatus = "error"
  /\ hkData = None

\* a key that cannot be parsed: null, undefined, or a marker of an invalid
\* date or number
Unparseable(key) ==
  \/ key.t \in {"null", "undefined"}
  \/ key.s \in {"NaN-QNaN", "NaN-Invalid Date", "Invalid Date", "NaN",
                "NaN-Invalid Date-NaN", "Invalid Date-NaN-NaN", "Invalid Date-NaN"}

\* C17: when the hook has handled a message with chart data, the data it
\* exposes has the entries of the message whose key can be parsed, in the
\* order of the message, and none of the others; if there is none, the
\* status is success and the data is undefined.
C17_UnparseableEntriesDropped ==
  (/\ IsSome(hkReceived)
   /\ ValueOf(hkReceived).status = "success"
   /\ ValueOf(ValueOf(hkReceived).visualizationData).kind = "chart") =>
    LET sent == ValueOf(ValueOf(hkReceived).visualizationData).data
        kept == SelectSeq(sent, LAMBDA key : ~Unparseable(key))
    IN  /\ hkStatus = "success"
        /\ IF kept = <<>> THEN hkData = None
           ELSE IsSome(hkData) /\ ValueOf(hkData).data = kept

\* an entry between two others was dropped and the two kept their order
C17_Witness ==
  /\ IsSome(hkReceived)
  /\ ValueOf(hkReceived).status = "success"
  /\ ValueOf(ValueOf(hkReceived).visualizationData).data =
       <<XString("2024-02"), XString("Invalid Date"), XString("2024-01")>>
  /\ IsSome(hkData)
  /\ ValueOf(hkData).data = <<XString("2024-02"), XString("2024-01")>>

\* only entries without a parseable key were sent: success without data
C17_WitnessNoneLeft ==
  /\ IsSome(hkReceived)
  /\ ValueOf(hkReceived).status = "success"
  /\ ValueOf(ValueOf(hkReceived).visualizationData).data = <<XNull, XString("Invalid Date")>>
  /\ hkStatus = "success"
  /\ hkData = None

\* C18: the status of the hook is loading, success or error, and while it
\* is error the data is undefined.
C18_ErrorStatusHasNoData ==
  /\ hkStatus \in {"loading", "success", "error"}
  /\ hkStatus = "error" => hkData = None

\* the hook has handled the failure of its second request
C18_Witness ==
  /\ hkStatus = "error"
  /\ hkData = None
  /\ IsSome(hkReceived)
  /\ ValueOf(hkReceived).request.table = 2
  /\ ValueOf(hkReceived).status = "error"

\* some row of some table or meta table has another number of cells than
\* the head of its table
SomeRowMismatchesHead ==
  \E k \in 1..Len(tables \o metaTables) :
    LET table == (tables \o metaTables)[k]
    IN  \E r \in 1..Len(table.body) : Len(table.body[r].cells) # Len(table.head)

\* C19: while a row of a table or meta table has another number of cells
\* than the head, no donate has called resolve: a donate ends in the
\* failure and no consent data has been handed over.
C19_MismatchedRowStopsDonate ==
  SomeRowMismatchesHead =>
    /\ trail.op # "donate"
    /\ \/ lastPayload = None
       \/ ValueOf(lastPayload).by # "ConsentForm.handleDonate"

\* donate was clicked with a row of two cells under a head of one cell,
\* and resolve was not called
C19_Witness ==
  /\ trail.op = "donate_throws"
  /\ resolveCount = 0
  /\ tables[1].head = <<"k">>
  /\ Len(tables[1].body) = 2
  /\ tables[1].body[2].cells = <<"a", "b">>
  /\ tables[1].body[1].cells = <<"a">>

\* the number of rows of a data frame: the row indexes of its columns
FrameRowCount(frame) == IF Len(frame) = 0 THEN 0 ELSE Len(frame[1].values)

\* C20: after a donate with no deletion the serialized table has one row
\* for each row index of the data frame, and the row at index i maps every
\* column name to the value the data frame has for that column at index i.
C20_RoundTripYieldsOriginalRows ==
  (trail.op = "donate" /\ Len(propsTables) = 1 /\ tables[1].deletedRows = <<>>) =>
    LET frame == propsTables[1].data_frame
        data == ValueOf(lastPayload).value[1].data
    IN  /\ Len(data) = FrameRowCount(frame)
        /\ \A i \in 1..Len(data) :
             /\ DOMAIN data[i] = {frame[c].name : c \in 1..Len(frame)}
             /\ \A c \in 1..Len(frame) :
                  JsonString(data[i][frame[c].name]) = frame[c].values[i]

\* C21: each container has at most one pending debounce timer, the pending
\* timer evaluates the latest query and type filter, and when no timer is
\* pending the matching ids are those of the latest query and type filter.
C21_SearchIsDebounced ==
  \A i \in Containers :
    /\ Cardinality(timer[i]) <= 1
    /\ \A t \in timer[i] : t = Closure(search[i], dataTypeFilter[i])
    /\ timer[i] = {} =>
         searchFilterIds[i] =
           searchRows(tables[i].originalBody, search[i], dataTypeFilter[i]).value

\* the query and the type filter were both changed, one timer is pending
\* and the ids of the search before the changes are still in force
C21_Witness ==
  /\ search[1] = <<"b">>
  /\ dataTypeFilter[1] = Some(<<"b">>)
  /\ timer[1] = {Closure(<<"b">>, Some(<<"b">>))}
  /\ searchFilterIds[1] = Some({"0"})

\* C22: after an undo on a table with an empty deletedRows ledger the
\* table is, in value, the table before the undo: the same body rows, an
\* empty ledger and deletedRowCount 0.
C22_UndoOnEmptyLedgerIsNoOp ==
  trail.op = "undo_empty" =>
    /\ tables[trail.table] = ValueOf(trail.before)
    /\ tables[trail.table].body = ValueOf(trail.before).body
    /\ tables[trail.table].deletedRows = <<>>
    /\ tables[trail.table].deletedRowCount = 0

\* undo was clicked on the table with its two rows and nothing deleted
C22_Witness ==
  /\ trail.op = "undo_empty"
  /\ ValueOf(trail.before).deletedRows = <<>>
  /\ Len(tables[trail.table].body) = 2

\* C23: the id, the head and the originalBody of every table are those
\* parseTable made, every row of the body and of the shown table is a row
\* of originalBody with its id and cells, and after a delete the table
\* that was given to handleDelete is still the table it was.
C23_ParsedDataIsNeverChanged ==
  /\ \A i \in Containers :
       LET parsed == parseTable(propsTables[i])
           shown == searchedTable(tables[i], searchFilterIds[i])
       IN  /\ tables[i].id = parsed.id
           /\ tables[i].head = parsed.head
           /\ tables[i].originalBody = parsed.originalBody
           /\ \A r \in 1..Len(tables[i].body) :
                \E o \in 1..Len(parsed.body) : tables[i].body[r] = parsed.body[o]
           /\ \A r \in 1..Len(shown.body) :
                \E o \in 1..Len(parsed.body) : shown.body[r] = parsed.body[o]
  /\ trail.op \in {"delete", "delete_undo"} => trail.old = trail.before

\* a search is in force, a row was deleted and the deletion was undone
C23_Witness ==
  /\ trail.op = "delete_undo"
  /\ searchFilterIds[1] # None
  /\ ValueOf(trail.before).deletedRows # <<>>
  /\ Len(tables[1].body) < Len(tables[1].originalBody)

\* the rows of originalBody that are not in the body of a table
RemovedRows(table) ==
  {table.originalBody[r].id : r \in 1..Len(table.originalBody)} \
    {table.body[r].id : r \in 1..Len(table.body)}

\* C24: the donated array has one object for each table, in order, then
\* one for each meta table, then one user_omissions object, whose entries
\* are, in order, those of the tables with removed rows, each with the
\* number of distinct rows removed from its table.
C24_PayloadLayoutAndOmissions ==
  trail.op = "donate" =>
    LET array == ValueOf(lastPayload).value
        nt == Len(tables)
        nm == Len(metaTables)
        redacted == SelectSeq(tables, LAMBDA t : RemovedRows(t) # {})
    IN  /\ Len(array) = nt + nm + 1
        /\ \A k \in 1..nt : array[k].key = tables[k].id
        /\ \A k \in 1..nm : array[nt + k].key = metaTables[k].id
        /\ array[nt + nm + 1].key = "user_omissions"
        /\ array[nt + nm + 1].data =
             [k \in 1..Len(redacted) |->
               [deleted |-> Cardinality(RemovedRows(redacted[k])), table |-> redacted[k].id]]

\* donated after one batch that names row "0" of the first table twice:
\* one entry, for the first table, with the count 1
C24_Witness ==
  /\ trail.op = "donate"
  /\ tables[1].deletedRows = << <<"0", "0">> >>
  /\ tables[2].deletedRows = <<>>
  /\ ValueOf(lastPayload).value[4].data = <<[deleted |-> 1, table |-> "t0"]>>

\* the ids of the rows of a sequence
IdsOf(rowSeq) == {rowSeq[r].id : r \in 1..Len(rowSeq)}

\* C25 as stated: a delete without row ids removes exactly the body rows
\* that match the query and the type filter of the moment, also when the
\* search for them has not been evaluated yet.
C25_DeleteAllUsesCurrentQuery ==
  (trail.op = "delete" /\ ~ValueOf(trail.view).given) =>
    LET i == trail.table
        before == ValueOf(trail.before)
        view == ValueOf(trail.view)
        matching == searchRows(before.originalBody, view.search, view.dataTypeFilter).value
    IN  IdsOf(before.body) \ IdsOf(tables[i].body) =
          IdsOf(searchedTable(before, matching).body)

\* C25 amended: a delete without row ids removes exactly the body rows the
\* container shows at that moment: the rows whose id is in the matching
\* ids of the latest evaluated search, or every body row when there are
\* none; a change of the query or type filter that has not been evaluated
\* yet does not count.
C25_DeleteAllUsesShownRows ==
  (trail.op = "delete" /\ ~ValueOf(trail.view).given) =>
    LET i == trail.table
        before == ValueOf(trail.before)
        view == ValueOf(trail.view)
    IN  /\ IdsOf(before.body) \ IdsOf(tables[i].body) =
             IdsOf(searchedTable(before, view.searchFilterIds).body)
        /\ NewestBatch(i) =
             [r \in 1..Len(searchedTable(before, view.searchFilterIds).body) |->
               searchedTable(before, view.searchFilterIds).body[r].id]

\* the rows were deleted while the query "b" was typed and not evaluated:
\* the container showed the row of the search before, and that row went
C25_Witness ==
  /\ trail.op = "delete"
  /\ ~ValueOf(trail.view).given
  /\ ValueOf(trail.view).search = <<"b">>
  /\ ValueOf(trail.view).searchFilterIds = Some({"0"})
  /\ IdsOf(tables[1].body) = {"1"}

\* a table as its deletedRows ledger alone determines it
FromLedger(table) ==
  [table EXCEPT !.body = SelectSeq(table.originalBody,
                           LAMBDA row : row.id \notin deleteIds(table.deletedRows))]

\* C26: the donated payload is the one the deletedRows ledgers determine,
\* whatever the query, the type filter and the matching ids are: a row that
\* a search hides and no batch names is donated.
C26_PayloadIgnoresSearchState ==
  trail.op = "donate" =>
    LET array == ValueOf(lastPayload).value
    IN  /\ \A i \in Containers :
             /\ array[i].data = serializeTable(FromLedger(tables[i])).data
             /\ Len(array[i].data) =
                  Cardinality(IdsOf(tables[i].originalBody) \ deleteIds(tables[i].deletedRows))

\* donated while the search "a" shows one of the two rows and nothing is
\* deleted: both rows are in the payload
C26_Witness ==
  /\ trail.op = "donate"
  /\ search[1] = <<"a">>
  /\ searchFilterIds[1] = Some({"0"})
  /\ tables[1].deletedRows = <<>>
  /\ Len(ValueOf(lastPayload).value[1].data) = 2

\* table ids that no table of the props carries
UnknownIds == {"m0", "t2"}

\* the delete and undo handlers of container i
DeleteOrUndo(i) ==
  \/ handleUndo(i)
  \/ handleDeleteAll(i)
  \/ \E b \in ExplicitBatches(tables[i]) : handleDelete(i, b)

\* C27: a delete or an undo in the container of table i leaves every other
\* table, the meta tables, and the number and the ids of the tables as they
\* were; updateTable with an id that no table carries returns the list
\* unchanged.
C27_OnlyOwnTableChanges ==
  /\ [][\A i \in Containers :
          DeleteOrUndo(i) =>
            /\ Len(tables') = Len(tables)
            /\ \A j \in Containers : tables'[j].id = tables[j].id
            /\ \A j \in Containers \ {i} : tables'[j] = tables[j]
            /\ metaTables' = metaTables]_vars
  /\ [](\A id \in UnknownIds : \A k \in Containers :
          updateTable(tables, id, tables[k]) = tables)

\* rows were deleted in the second table after rows were deleted in the first
C27_Witness ==
  /\ trail.op = "delete"
  /\ trail.table = 2
  /\ tables[1].deletedRows # <<>>
  /\ tables[2].deletedRows # <<>>
  /\ tables[1].id # tables[2].id

\* C28: the parsed table has one row for each entry of the data frame's
\* first column, with the ids "0", "1", ... in order and one cell per
\* column in every row; a data frame without rows and a data frame without
\* columns parse to no rows.
C28_ParseYieldsOneRowPerEntry ==
  \A k \in 1..Len(propsTables) :
    LET frame == propsTables[k].data_frame
        table == parseTable(propsTables[k])
    IN  /\ Len(table.body) = FrameRowCount(frame)
        /\ \A r \in 1..Len(table.body) :
             /\ table.body[r].id = ToString(r - 1)
             /\ Len(table.body[r].cells) = Len(frame)
        /\ (Len(frame) = 0 => table.body = <<>>)

\* C29: in every table, parsed and then changed by deletes and undos, each
\* row of body and of originalBody has as many cells as the head has, so
\* the assert of serializeRow holds for every row and no donate throws.
C29_RowsKeepTheHeadsCellCount ==
  /\ \A i \in DOMAIN tables :
       /\ \A r \in 1..Len(tables[i].body) :
            Len(tables[i].body[r].cells) = Len(tables[i].head)
       /\ \A r \in 1..Len(tables[i].originalBody) :
            Len(tables[i].originalBody[r].cells) = Len(tables[i].head)
  /\ ~serializeThrows(tables, metaTables)
  /\ trail.op # "donate_throws"

\* donated a table of two columns after a delete left one of its rows
C29_Witness ==
  /\ trail.op = "donate"
  /\ Len(tables[1].head) = 2
  /\ tables[1].deletedRows # <<>>
  /\ Len(tables[1].body) = 1
  /\ Len(ValueOf(lastPayload).value[1].data) = 1

\* the requests of the responses the worker has posted, oldest first
Answered == [k \in 1..Len(wkOutbox) |-> wkOutbox[k].request]

\* a message is the success message with data or the error message without
WellFormedResponse(message) ==
  \/ message.status = "success" /\ IsSome(message.visualizationData)
  \/ message.status = "error" /\ message.visualizationData = None

\* C30: the worker answers every request it has received, as long as it
\* is not terminated, with one message: the step that ends a preparation
\* posts exactly one message, for that request, which is the success
\* message with the prepared data or the error message without data; no
\* request is answered twice or answered while it is still pending; and
\* again and again no preparation is pending, so that each request the
\* worker has received stops being pending, by such a step.
C30_OneResponsePerRequest ==
  /\ [](/\ \A k \in 1..Len(wkOutbox) : WellFormedResponse(wkOutbox[k])
        /\ \A k, m \in 1..Len(wkOutbox) : Answered[k] = Answered[m] => k = m
        /\ \A k \in 1..Len(wkOutbox) :
             /\ Answered[k] \notin wkRunning
             /\ \A m \in 1..Len(wkInbox) : wkInbox[m] # Answered[k]
        /\ IsSome(hkReceived) =>
             /\ WellFormedResponse(ValueOf(hkReceived))
             /\ ValueOf(hkReceived).request \notin wkRunning
             /\ \A k \in 1..Len(wkOutbox) : Answered[k] # ValueOf(hkReceived).request)
  /\ [][\A r \in wkRunning :
          r \notin wkRunning' =>
            \/ wkState' = "terminated"
            \/ /\ Len(wkOutbox') = Len(wkOutbox) + 1
               /\ SubSeq(wkOutbox', 1, Len(wkOutbox)) = wkOutbox
               /\ wkOutbox'[Len(wkOutbox')].request = r
               /\ \E o \in createVisualizationData(r) :
                    /\ wkOutbox'[Len(wkOutbox')].status =
                         (IF o.settled = "resolved" THEN "success" ELSE "error")
                    /\ wkOutbox'[Len(wkOutbox')].visualizationData = o.data]_vars
  /\ [][Len(wkOutbox') > Len(wkOutbox) =>
          /\ Len(wkOutbox') = Len(wkOutbox) + 1
          /\ wkOutbox'[Len(wkOutbox')].request \in wkRunning \ wkRunning']_vars
  /\ []<>(wkRunning = {})

\* the worker has answered two requests, the first with the success message
\* and the second with the error message
C30_Witness ==
  /\ Len(wkOutbox) = 2
  /\ wkOutbox[1].status = "success"
  /\ IsSome(wkOutbox[1].visualizationData)
  /\ wkOutbox[2].status = "error"
  /\ wkOutbox[2].visualizationData = None
  /\ wkOutbox[1].request # wkOutbox[2].request

====
